---- MODULE Spec2Model ----
(***************************************************************************)
(* Model of the LLMvsClinicians data extractors: the response normalizer   *)
(* (extract_bullet_points, standardize_variable_name and the value         *)
(* normalisation) and the batch loop (main and                             *)
(* process_and_run_llm_for_subfolder) of the eleven extractor scripts.     *)
(* A store is the sequence of the rows of an output file, a row the dict   *)
(* written to it; time is kept as the differences the throttled scripts    *)
(* compute from time.time().                                               *)
(* Text is modelled character by character: a line is a TLA+ string and    *)
(* the three regular expressions are operators over its characters.        *)
(* The bullet glyph U+2022 is written "@" because a TLA+ string holds      *)
(* only ASCII; a-umlaut and o-umlaut are written "{" and "|", their        *)
(* capitals "[" and "\\" (the code points DIN 66003 gives them).           *)
(***************************************************************************)
EXTENDS Integers, Sequences, FiniteSets, TLC

(***************************************************************************)
(* Python values                                                           *)
(***************************************************************************)
\* Python's None where the code holds a str or None (no label is "None":
\* labels are lower-cased, canonical names are listed below).
NoneVal == "None"

\* truth value of a str-or-None in `if x:`
Truthy(s) == s # NoneVal /\ s # ""

(***************************************************************************)
(* Characters and str methods                                              *)
(***************************************************************************)
AsciiUpper == "ABCDEFGHIJKLMNOPQRSTUVWXYZ"
AsciiLower == "abcdefghijklmnopqrstuvwxyz"
\* A-umlaut, O-umlaut and their lower-case forms
UpperLetters == AsciiUpper \o "[\\"
LowerLetters == AsciiLower \o "{|"
Digits == "0123456789"

CharAt(s, i) == SubSeq(s, i, i)

CharIn(c, alphabet) == \E k \in 1..Len(alphabet) : CharAt(alphabet, k) = c

\* str.lower() on one character
LowerChar(c) ==
    IF CharIn(c, UpperLetters)
    THEN CharAt(LowerLetters, CHOOSE k \in 1..Len(UpperLetters) : CharAt(UpperLetters, k) = c)
    ELSE c

RECURSIVE LowerFrom(_, _)
\* the lower-cased characters of s from position i on
LowerFrom(s, i) ==
    IF i > Len(s) THEN "" ELSE LowerChar(CharAt(s, i)) \o LowerFrom(s, i + 1)

\* str.lower()
lower(s) == LowerFrom(s, 1)

\* \s of the re module (the characters a line can still hold after split('\n'))
IsSpace(c) == c \in {" ", "\t", "\r"}

\* [A-Za-z] under re.IGNORECASE
IsAsciiLetter(c) == CharIn(c, AsciiUpper) \/ CharIn(c, AsciiLower)

\* \w of the re module on str patterns: letters (umlauts included), digits, underscore
IsWordChar(c) == CharIn(c, UpperLetters) \/ CharIn(c, LowerLetters) \/ CharIn(c, Digits) \/ c = "_"

\* str.strip()
strip(s) ==
    LET nonSpace == {i \in 1..Len(s) : ~IsSpace(CharAt(s, i))}
    IN  IF nonSpace = {} THEN ""
        ELSE SubSeq(s, CHOOSE i \in nonSpace : \A j \in nonSpace : i <= j,
                       CHOOSE i \in nonSpace : \A j \in nonSpace : j <= i)

\* the `in` operator on two str: frag occurs in s as a substring
Contains(frag, s) ==
    \E i \in 1..(Len(s) - Len(frag) + 1) : SubSeq(s, i, i + Len(frag) - 1) = frag

\* s starts with prefix at position p, letter case ignored (re.IGNORECASE)
MatchesAt(s, p, prefix) ==
    /\ p + Len(prefix) - 1 <= Len(s)
    /\ lower(SubSeq(s, p, p + Len(prefix) - 1)) = lower(prefix)

\* position of the first character at or after p that is not in the class, Len(s)+1 if none
SkipWhile(s, p, InClass(_)) ==
    LET stops == {i \in p..Len(s) : ~InClass(CharAt(s, i))}
    IN  IF stops = {} THEN Len(s) + 1 ELSE CHOOSE i \in stops : \A j \in stops : i <= j

IsStar(c) == c = "*"
IsColon(c) == c = ":"
NotColon(c) == c # ":"

\* str.split('\n'): the pieces of s between its newlines, in order
split_lines(s) ==
    LET nl      == {i \in 1..Len(s) : CharAt(s, i) = "\n"}
        n       == Cardinality(nl)
        \* position of the k-th newline; 0 and Len(s)+1 stand for the two ends
        pos(k)  == IF k = 0 THEN 0
                   ELSE IF k = n + 1 THEN Len(s) + 1
                   ELSE CHOOSE i \in nl : Cardinality({j \in nl : j < i}) = k - 1
    IN  [k \in 1..(n + 1) |-> SubSeq(s, pos(k - 1) + 1, pos(k) - 1)]

RECURSIVE JoinFrom(_, _)
\* the lines k.. of ls with a newline between neighbours
JoinFrom(ls, k) ==
    IF k > Len(ls) THEN ""
    ELSE IF k = Len(ls) THEN ls[k]
    ELSE ls[k] \o "\n" \o JoinFrom(ls, k + 1)

\* "\n".join(ls)
join_lines(ls) == JoinFrom(ls, 1)

(***************************************************************************)
(* The regular expressions of extract_bullet_points                        *)
(***************************************************************************)
\* the value alternatives (Yes|No|Ja|Nein), in the order the patterns list them
YesNoTokens == <<"Yes", "No", "Ja", "Nein">>
\* (Yes|No|Ja|Nein|provided|know) of the Disease Course patterns
DisCourseTokens == <<"Yes", "No", "Ja", "Nein", "provided", "know">>

NoMatch == [matched |-> FALSE, label |-> "", value |-> ""]

\* an alternation (t1|t2|...) tried at position p: the text the first
\* alternative that matches there consumes, "" when none matches
MatchToken(s, p, tokens) ==
    LET hits == {k \in 1..Len(tokens) : MatchesAt(s, p, tokens[k])}
    IN  IF hits = {} THEN ""
        ELSE LET k == CHOOSE h \in hits : \A g \in hits : h <= g
             IN  SubSeq(s, p, p + Len(tokens[k]) - 1)

\* length of the bullet (?:\*\s*|\*\*\*|\*+\s*\*\*?|[•\-]|[1-5]\.) at the
\* start of s, without the optional characters that follow it; 0 when s has none
BulletLen(s) ==
    IF Len(s) >= 1 /\ CharAt(s, 1) \in {"*", "@", "-"} THEN 1
    ELSE IF Len(s) >= 2 /\ CharAt(s, 1) \in {"1", "2", "3", "4", "5"} /\ CharAt(s, 2) = "." THEN 2
    ELSE 0

\* r'^\s*(?:\*\s*|\*\*\*|\*+\s*\*\*?|[•\-]|[1-5]\.)\s*\**\s*([^:]+?)\**\s*:
\*   \s*(?:\'|\")?(tokens)(?:\'|\")?.*' with re.IGNORECASE, as pattern.match(s):
\* group 1 ends before the first colon, group 2 is the first alternative that
\* matches after the colon, blanks and one optional quote.
bullet_point_pattern(s, tokens) ==
    LET b     == BulletLen(s)
        colon == SkipWhile(s, 1, NotColon)
        \* greedy \s* \** \s* after the bullet, giving back what group 1 needs
        g1    == SkipWhile(s, b + 1, IsSpace)
        g2    == SkipWhile(s, g1, IsStar)
        g3    == SkipWhile(s, g2, IsSpace)
        start == IF g3 <= colon - 1 THEN g3 ELSE colon - 1
        \* lazy group 1: the shortest text followed by \**\s* and the colon
        ends  == {e \in start..(colon - 1) :
                     SkipWhile(s, SkipWhile(s, e + 1, IsStar), IsSpace) = colon}
        stop  == CHOOSE e \in ends : \A f \in ends : e <= f
        v1    == SkipWhile(s, colon + 1, IsSpace)
        v2    == IF v1 <= Len(s) /\ CharAt(s, v1) \in {"'", "\""} THEN v1 + 1 ELSE v1
        tok   == MatchToken(s, v2, tokens)
    IN  IF b = 0 \/ colon > Len(s) \/ colon - 1 < b + 1 \/ tok = "" THEN NoMatch
        ELSE [matched |-> TRUE, label |-> SubSeq(s, start, stop), value |-> tok]

\* r'\s*(?:[\*•\-]|[1-5]\.)\s*([^:]+):\s*(?:\*\*)?(Yes|No|Ja|Nein)(?:\*\*)?
\*   \s*(?:\([^)]*\))?' with re.IGNORECASE (PostOP local), as pattern.match(s)
bullet_point_pattern_local(s, tokens) ==
    LET b     == BulletLen(s)
        colon == SkipWhile(s, 1, NotColon)
        g1    == SkipWhile(s, b + 1, IsSpace)
        start == IF g1 <= colon - 1 THEN g1 ELSE colon - 1
        v1    == SkipWhile(s, colon + 1, IsSpace)
        v2    == IF MatchesAt(s, v1, "**") THEN v1 + 2 ELSE v1
        tok   == MatchToken(s, v2, tokens)
        \* (?:\*\*)? gives its two stars back when no token follows them
        tok1  == IF tok # "" THEN tok ELSE MatchToken(s, v1, tokens)
    IN  IF b = 0 \/ colon > Len(s) \/ colon - 1 < b + 1 \/ tok1 = "" THEN NoMatch
        ELSE [matched |-> TRUE, label |-> SubSeq(s, start, colon - 1), value |-> tok1]

\* r'^\s*([A-Za-z\s]+):\s*(tokens)' with re.IGNORECASE, as pattern.match(s)
standalone_answer_pattern(s, tokens) ==
    LET colon == SkipWhile(s, 1, NotColon)
        tok   == MatchToken(s, SkipWhile(s, colon + 1, IsSpace), tokens)
    IN  IF colon > Len(s) \/ colon = 1 \/ tok = ""
           \/ \E i \in 1..(colon - 1) : ~(IsAsciiLetter(CharAt(s, i)) \/ IsSpace(CharAt(s, i)))
        THEN NoMatch
        ELSE [matched |-> TRUE, label |-> SubSeq(s, 1, colon - 1), value |-> tok]

\* the marker pattern compared with the whole line
final_answer_pattern_whole_line(s) == lower(s) = "final answer"

\* r'\bfinal answer\b' with re.IGNORECASE, as pattern.search(s): the phrase
\* with a word boundary on each side
final_answer_pattern(s) ==
    \E i \in 1..(Len(s) - 11) :
        /\ lower(SubSeq(s, i, i + 11)) = "final answer"
        /\ (i = 1 \/ ~IsWordChar(CharAt(s, i - 1)))
        /\ (i + 12 > Len(s) \/ ~IsWordChar(CharAt(s, i + 12)))

(***************************************************************************)
(* The eleven extractor scripts                                            *)
(***************************************************************************)
PreOPExtractors == {"PreOP_Claude", "PreOP_Gemini", "PreOP_local"}
PostOPExtractors == {"PostOP_Claude", "PostOP_Gemini", "PostOP_OpenAI", "PostOP_local"}
DisCourseExtractors == {"DisCourse_Claude", "DisCourse_Gemini", "DisCourse_OpenAI", "DisCourse_local"}
Extractors == PreOPExtractors \cup PostOPExtractors \cup DisCourseExtractors

\* the extraction task of a script
Task(e) ==
    IF e \in PreOPExtractors THEN "PreOP"
    ELSE IF e \in PostOPExtractors THEN "PostOP"
    ELSE "DisCourse"

\* scripts whose extract_bullet_points has final_answer_pattern and
\* standalone_answer_pattern (PostOP Gemini and PostOP local have neither)
HasFinalAnswerSection(e) == e \notin {"PostOP_Gemini", "PostOP_local"}

\* scripts whose loop ends with the branch `elif current_variable and line:`
HasExplanationBranch(e) == e \in PreOPExtractors \cup {"PostOP_Claude", "PostOP_OpenAI", "PostOP_local"}

\* the value alternatives of the script's patterns
ValueTokens(e) == IF e \in DisCourseExtractors THEN DisCourseTokens ELSE YesNoTokens

\* bullet_point_pattern.match(line) of the script
BulletMatch(e, line) ==
    IF e = "PostOP_local" THEN bullet_point_pattern_local(line, ValueTokens(e))
    ELSE bullet_point_pattern(line, ValueTokens(e))

(***************************************************************************)
(* Variable taxonomy                                                       *)
(***************************************************************************)
\* the names standardize_variable_name can return, in the order of save_to_excel's columns
CanonicalNames(task) ==
    IF task = "PreOP"
    THEN <<"Trigeminal Pain", "Facial Numbness", "Vertigo", "Lacrimation", "Facial Muscle Spasm", "Other">>
    ELSE IF task = "PostOP"
    THEN <<"CSF Leak", "Infection", "Facial Palsy", "Facial Numbness", "Hearing Loss">>
    ELSE <<"Symptom-improvement after 1. surgery", "Free of pain after first surgery",
           "Recurrence after first surgery", "Second surgery", "Free of pain after second surgery",
           "Recurrence after second surgery", "Thermocoagulation">>

\* does any of the fragments occur in the variable
AnyIn(fragments, variable) == \E f \in fragments : Contains(f, variable)

standardize_PreOP(variable) ==
    LET v == lower(variable)
    IN  IF AnyIn({"sudden", "facial pain"}, v) THEN "Trigeminal Pain"
        ELSE IF AnyIn({"facial numbness", "taub"}, v) THEN "Facial Numbness"
        ELSE IF AnyIn({"vertigo", "dizz"}, v) THEN "Vertigo"
        ELSE IF AnyIn({"lacrimation", "tear"}, v) THEN "Lacrimation"
        ELSE IF AnyIn({"spasm", "muscle"}, v) THEN "Facial Muscle Spasm"
        ELSE IF AnyIn({"other"}, v) THEN "Other"
        ELSE NoneVal

standardize_PostOP(variable) ==
    LET v == lower(variable)
    IN  IF AnyIn({"leak", "liquor"}, v) THEN "CSF Leak"
        ELSE IF AnyIn({"infection", "infektion"}, v) THEN "Infection"
        ELSE IF AnyIn({"facial palsy", "gesichtsl{hmung"}, v) THEN "Facial Palsy"
        ELSE IF AnyIn({"facial numbness", "taub"}, v) THEN "Facial Numbness"
        ELSE IF AnyIn({"hearing loss", "h|rverlust"}, v) THEN "Hearing Loss"
        ELSE NoneVal

standardize_DisCourse(variable) ==
    LET v == strip(lower(variable))
    IN  IF v = "free of pain after second surgery" THEN "Free of pain after second surgery"
        ELSE IF v = "recurrence after second surgery" THEN "Recurrence after second surgery"
        ELSE IF AnyIn({"improvement", "betterment"}, v) THEN "Symptom-improvement after 1. surgery"
        ELSE IF AnyIn({"free of pain after first", "painfree after first",
                       "painfree after 1", "free of pain after 1"}, v)
             THEN "Free of pain after first surgery"
        ELSE IF AnyIn({"recurrence after first", "recurrence after 1"}, v)
             THEN "Recurrence after first surgery"
        ELSE IF AnyIn({"second surgery", "2nd surgery", "2. surgery",
                       "a second surgery was carried out"}, v)
             THEN "Second surgery"
        ELSE IF AnyIn({"thermocoag", "coagulation"}, v) THEN "Thermocoagulation"
        ELSE NoneVal

\* standardize_variable_name of the task (PostOP Gemini and PostOP local
\* carry the same rules inline)
standardize_variable_name(task, variable) ==
    IF task = "PreOP" THEN standardize_PreOP(variable)
    ELSE IF task = "PostOP" THEN standardize_PostOP(variable)
    ELSE standardize_DisCourse(variable)

(***************************************************************************)
(* Value normalisation                                                     *)
(***************************************************************************)
\* the sentinel the Disease Course scripts store for "provided" / "know"
Sentinel == "Zero"

\* the value kept as written
normalize_yes_no_as_written(value) == value

\* if value.lower() == "ja": ... elif value.lower() == "nein": ... (PreOP, PostOP)
normalize_yes_no(value) ==
    IF lower(value) = "ja" THEN "Yes"
    ELSE IF lower(value) = "nein" THEN "No"
    ELSE value

\* normalize_response_value (Disease Course; inline in the Claude and OpenAI scripts)
normalize_response_value(value) ==
    IF lower(value) = "ja" THEN "Yes"
    ELSE IF lower(value) = "nein" THEN "No"
    ELSE IF lower(value) \in {"provided", "know"} THEN Sentinel
    ELSE value

NormalizeValue(e, value) ==
    IF e \in DisCourseExtractors THEN normalize_response_value(value) ELSE normalize_yes_no(value)

(***************************************************************************)
(* Python dict, as the sequence of its (key, value) items in insertion     *)
(* order                                                                   *)
(***************************************************************************)
DictKeys(d) == {d[i][1] : i \in 1..Len(d)}

DictHas(d, k) == k \in DictKeys(d)

\* d[k], NoneVal when k is not a key (dict.get)
DictGet(d, k) ==
    IF DictHas(d, k) THEN d[CHOOSE i \in 1..Len(d) : d[i][1] = k][2] ELSE NoneVal

\* an assignment that keeps the value of a key already present
DictSet_keep_first(d, k, v) ==
    IF DictHas(d, k) THEN d ELSE Append(d, <<k, v>>)

\* d[k] = v
DictSet(d, k, v) ==
    IF DictHas(d, k) THEN [i \in 1..Len(d) |-> IF d[i][1] = k THEN <<k, v>> ELSE d[i]]
    ELSE Append(d, <<k, v>>)

(***************************************************************************)
(* Model answers.  A RawAnswer is a text of lines joined by newlines.      *)
(***************************************************************************)
\* longest answer drawn freely from LineChoices
MaxLines == 3

\* the lines the free answers of a task are drawn from
LineChoices(task) ==
    IF task = "PreOP"
    THEN {"Final answer:", "- Vertigo: Yes", "Vertigo: no", "- Taubheit: Ja",
          "- Numbness: Yes", "My final answers follow", "since childhood"}
    ELSE IF task = "PostOP"
    THEN {"Final answer:", "- Infection: Yes", "Infection: No", "@ H|rverlust: NEIN",
          "* Fever: No", "- CSF leak: yes", "mild, resolved in days"}
    ELSE {"Final answer:", "- Thermocoagulation was carried out: Not provided",
          "Thermocoagulation: know", "- A second surgery was carried out: Yes",
          "Second surgery: No", "- Improvement: don't know", "- Outcome: No"}

\* the scenario answers of the specification and single lines of interest, by task
ScenarioAnswers(task) ==
    IF task = "PreOP"
    THEN {<<"2. Facial Numbness: Yes">>, <<"- Facial Numbness: Yes">>,
          <<"- Vertigo (final answer): Yes">>,
          <<"- Sudden Severe Facial Pain: Yes", "- Trigeminal Pain: No">>}
    ELSE IF task = "PostOP"
    THEN {<<"Reasoning...", "Final answer:", "CSF Leak: No", "Infection: No",
            "Facial Palsy: Yes - mild, resolved in days">>,
          <<"- Taubheit: Ja">>, <<"- Numbness: Yes">>, <<"- Facial Numbness: Yes">>,
          <<"Final answer:", "H|rverlust: Ja">>, <<"* Infektion: Nein">>, <<"@ Liquor: Ja">>}
    ELSE {<<"3. Recurrence after second surgery: 'provided'">>,
          <<"- A second surgery was carried out: Yes",
            "- Completely free of pain after second surgery: No">>,
          <<"Final answer:",
            "1. Any improvement of pain after first surgery: Yes",
            "2. Completely free of pain after first surgery: No",
            "3. Symptom recurrence after first surgery: Yes",
            "4. A second surgery was carried out: Yes",
            "5. Free of pain after second surgery: Yes",
            "6. Recurrence after second surgery: No",
            "7. Thermocoagulation was carried out: No">>}

\* every sequence of at most n lines drawn from the set
RECURSIVE SeqsUpTo(_, _)
SeqsUpTo(set, n) ==
    IF n = 0 THEN {<<>>}
    ELSE LET shorter == SeqsUpTo(set, n - 1)
         IN  shorter \cup {Append(q, l) : q \in {r \in shorter : Len(r) = n - 1}, l \in set}

\* the answers (as line sequences) a provider may give for a task
AnswerLines(task) == (SeqsUpTo(LineChoices(task), MaxLines) \ {<<>>}) \cup ScenarioAnswers(task)

\* number of subfolders (cases) in main_folder, numbered 1..NumCases in list order
NumCases == 3

\* the answer the provider gives for a case when its call succeeds in the batch loop
CaseAnswer(task, case) ==
    IF case % 2 = 0 THEN "Reasoning..."
    ELSE IF task = "PreOP"
    THEN "- Vertigo: Yes\nsince childhood\nFinal answer:\nVertigo: no"
    ELSE IF task = "PostOP"
    THEN "- Infection: Yes\nmild, resolved in days\nFinal answer:\nInfection: No"
    ELSE "- A second surgery was carried out: Yes\nThe patient improved\nFinal answer:\nSecond surgery: No"

\* the lines of a text, as a set
LinesOf(text) == {split_lines(text)[k] : k \in 1..Len(split_lines(text))}

\* every line a script of the task meets in the answers above
LineLexicon(task) ==
    LineChoices(task)
    \cup UNION {{a[i] : i \in 1..Len(a)} : a \in ScenarioAnswers(task)}
    \cup UNION {LinesOf(CaseAnswer(task, case)) : case \in 1..NumCases}
    \cup {""}

(***************************************************************************)
(* extract_bullet_points: the loop body                                    *)
(***************************************************************************)
\* what a pattern match hands to the loop body: variable = group(1).strip().lower(),
\* value = group(2).strip() normalised, normalized_variable = its canonical name
Reading(e, m) ==
    IF ~m.matched
    THEN [matched |-> FALSE, variable |-> "", value |-> "", normalized_variable |-> NoneVal]
    ELSE [matched |-> TRUE,
          variable |-> lower(strip(m.label)),
          value |-> NormalizeValue(e, strip(m.value)),
          normalized_variable |-> standardize_variable_name(Task(e), lower(strip(m.label)))]

\* line = line.strip() and the pattern matches of the stripped line in script e
ReadLine(e, raw) ==
    [line |-> strip(raw),
     marker |-> HasFinalAnswerSection(e) /\ final_answer_pattern(strip(raw)),
     bullet |-> Reading(e, BulletMatch(e, strip(raw))),
     standalone |-> IF HasFinalAnswerSection(e)
                    THEN Reading(e, standalone_answer_pattern(strip(raw), ValueTokens(e)))
                    ELSE Reading(e, NoMatch)]

\* the state of the loop `for line in lines:` before its first pass
LoopStart ==
    [relevant_points |-> <<>>, current_variable |-> NoneVal, in_final_answer_section |-> FALSE]

\* the bullet pattern tried only inside the final-answer section
Branch_bullets_gated(e, st, r) ==
    IF r.marker THEN "marker"
    ELSE IF r.bullet.matched /\ (st.in_final_answer_section \/ ~HasFinalAnswerSection(e))
         THEN "bullet"
    ELSE IF HasFinalAnswerSection(e) /\ st.in_final_answer_section
         THEN (IF r.standalone.matched THEN "standalone" ELSE "skip")
    ELSE IF HasExplanationBranch(e) /\ Truthy(st.current_variable) /\ r.line # ""
         THEN "explanation"
    ELSE "skip"

\* which branch of the loop body a line with reading r takes in loop state st
Branch(e, st, r) ==
    IF r.marker THEN "marker"
    ELSE IF r.bullet.matched THEN "bullet"
    ELSE IF HasFinalAnswerSection(e) /\ st.in_final_answer_section
         THEN (IF r.standalone.matched THEN "standalone" ELSE "skip")
    ELSE IF HasExplanationBranch(e) /\ Truthy(st.current_variable) /\ r.line # ""
         THEN "explanation"
    ELSE "skip"

\* the assignment without its `if normalized_variable:` guard
StorePoint_unguarded(points, normalized_variable, value) ==
    DictSet(points, normalized_variable, value)

\* relevant_points[normalized_variable] = value, under `if normalized_variable:`
StorePoint(points, normalized_variable, value) ==
    IF Truthy(normalized_variable) THEN DictSet(points, normalized_variable, value) ELSE points

\* relevant_points[current_variable] += f" - {line}", under
\* `if current_variable in relevant_points:`
AppendExplanation(points, variable, line) ==
    IF DictHas(points, variable)
    THEN DictSet(points, variable, DictGet(points, variable) \o " - " \o line)
    ELSE points

\* the loop body whose last branch stores the line as the value of the
\* current variable
ProcessLine_annotation_overwrites(e, st, r) ==
    CASE Branch(e, st, r) = "marker" ->
            [st EXCEPT !.in_final_answer_section = TRUE]
      [] Branch(e, st, r) = "bullet" ->
            [st EXCEPT !.current_variable = r.bullet.variable,
                       !.relevant_points = StorePoint(@, r.bullet.normalized_variable, r.bullet.value)]
      [] Branch(e, st, r) = "standalone" ->
            [st EXCEPT !.relevant_points =
                           StorePoint(@, r.standalone.normalized_variable, r.standalone.value)]
      [] Branch(e, st, r) = "explanation" ->
            [st EXCEPT !.relevant_points =
                           StorePoint(@, standardize_variable_name(Task(e), st.current_variable),
                                      r.line)]
      [] OTHER -> st

\* one pass of the loop body over a line with reading r
ProcessLine(e, st, r) ==
    CASE Branch(e, st, r) = "marker" ->
            [st EXCEPT !.in_final_answer_section = TRUE]
      [] Branch(e, st, r) = "bullet" ->
            [st EXCEPT !.current_variable = r.bullet.variable,
                       !.relevant_points = StorePoint(@, r.bullet.normalized_variable, r.bullet.value)]
      [] Branch(e, st, r) = "standalone" ->
            [st EXCEPT !.relevant_points =
                           StorePoint(@, r.standalone.normalized_variable, r.standalone.value)]
      [] Branch(e, st, r) = "explanation" ->
            [st EXCEPT !.relevant_points = AppendExplanation(@, st.current_variable, r.line)]
      [] OTHER -> st

(***************************************************************************)
(* The batch loop: configuration                                           *)
(***************************************************************************)
\* scripts whose main has no `for i in range(1, iteration_n + 1)` loop around
\* the subfolders: one pass, one global output_file
SinglePass(e) == e \in {"PreOP_Claude", "PostOP_Claude", "PostOP_Gemini"}

\* iteration_n of the script (one pass where main has no iteration loop)
iteration_n(e) ==
    IF SinglePass(e) \/ e = "PreOP_Gemini" THEN 1
    ELSE IF e = "DisCourse_local" THEN 2
    ELSE 3

\* scripts whose process_and_run_llm_for_subfolder ends with
\* save_to_excel(data, output_file); the other scripts return data to main
SavesPerCase(e) == SinglePass(e) \/ e = "PreOP_Gemini"

\* does the name output_file resolve where process_and_run_llm_for_subfolder
\* uses it?  PreOP Gemini binds it only as a local of main.
OutputFileIsGlobal(e) == e # "PreOP_Gemini"

\* the store a script writes in iteration i: 0 is the global output_file,
\* i is output_<llm_nickname>_<i>.xlsx
OutputFile(e, i) == IF SinglePass(e) THEN 0 ELSE i

\* every store a run of script e may write
OutputFiles(e) == {OutputFile(e, i) : i \in 1..iteration_n(e)}

\* os.path.basename(subfolder_path) of the case
subfolder_name(case) == "case" \o ToString(case)

\* the document text handed to the provider for the case
context(case) == "documents of " \o subfolder_name(case)

\* the identifying keys process_and_run_llm_for_subfolder puts into data
IdentifierKeys(e) ==
    IF e \in {"PreOP_Gemini", "PreOP_local", "PostOP_Gemini", "PostOP_local"}
    THEN <<"Patient_ID">>
    ELSE IF e \in {"DisCourse_Claude", "DisCourse_OpenAI"} THEN <<"Subfolder">>
    ELSE IF e \in {"DisCourse_Gemini", "DisCourse_local"} THEN <<"Surname", "Name">>
    ELSE <<>>

\* the value stored under an identifying key: the folder name, or the fixed
\* text of `surname, name = "ANONYMIZED", "ANONYMIZED"`
IdentifierValue(key, case) ==
    IF key \in {"Surname", "Name"} THEN "ANONYMIZED" ELSE subfolder_name(case)

\* `columns` of save_to_excel in the scripts that call it
columns(e) ==
    IdentifierKeys(e) \o CanonicalNames(Task(e)) \o <<"AI response", "Parsed Data">>

\* the temperature argument of the provider call: <<0>> where the call passes
\* temperature=0 (Claude: messages.create; local: the "temperature" key of the
\* posted JSON), <<>> where the call passes none (generate_content,
\* chat.completions.create)
temperature(e) ==
    IF e \in {"PreOP_Claude", "PostOP_Claude", "DisCourse_Claude",
              "PreOP_local", "PostOP_local", "DisCourse_local"}
    THEN <<0>> ELSE <<>>

\* scripts that read a streamed answer line by line with json.loads
Streams(e) == e \in {"PreOP_local", "PostOP_local", "DisCourse_local"}

\* scripts whose main pauses `if j % rate_limit == 0`
Throttled(e) == e \in {"PreOP_Gemini", "PostOP_Gemini", "DisCourse_Gemini"}

\* requests per window (15 or 10 in the scripts, scaled to the case list)
rate_limit == 2

\* `remaining_time = 61 - elapsed_time`
MinWindow == 61

\* time a case may take before its provider call is issued (reading and
\* combining the documents, writing context.txt), in the scripts that read
\* the clock
PrepTimes(e) == IF Throttled(e) THEN {0, 2} ELSE {0}

\* time a provider call may take, in the scripts that read the clock
CallTimes(e) == IF Throttled(e) THEN {0, 31} ELSE {0}

\* a clock difference; MinWindow stands for MinWindow or more
Saturated(t) == IF t > MinWindow THEN MinWindow ELSE t

\* the ages of the latest invocations after d more time units
Later(as, d) == [k \in 1..Len(as) |-> Saturated(as[k] + d)]

\* the last n entries of a sequence
LastN(s, n) == IF Len(s) > n THEN SubSeq(s, Len(s) - n + 1, Len(s)) ELSE s

(***************************************************************************)
(* State                                                                   *)
(***************************************************************************)
VARIABLES
    extractor,                \* the script that runs
    \* extract_bullet_points
    response_text,            \* its argument
    lines,                    \* response_text.split('\n')
    readings,                 \* what the patterns find on each of the lines
    compiled,                 \* the compiled patterns: what they find on each line of the lexicon
    line_no,                  \* number of lines the loop has processed
    relevant_points,          \* the dict being built
    current_variable,         \* label of the last bullet match, lower-cased
    in_final_answer_section,  \* the final-answer flag
    npc,                      \* "idle", "call", "loop" or "done"
    \* main
    mpc,                      \* "unit", "case", "extract", "end_iteration", "done" or "crashed"
    iteration,                \* i of `for i in range(1, iteration_n + 1)`
    case_no,                  \* position of the subfolder being processed
    all_data,                 \* rows collected in this iteration
    files,                    \* the stores on disk: output file -> its rows
    reported,                 \* <<iteration, case>> of every error message printed
    invocations,              \* every provider call issued, in order
    elapsed,                  \* time.time() - start_time
    ages,                     \* when the latest call was issued: time since each of the
                              \* latest rate_limit + 1 calls was issued
    since_issue,              \* time since the latest call was issued
    unchecked                 \* number of calls issued since the latest `if j % rate_limit == 0`
                              \* that held (since the start of the run before the first)

nvars == <<response_text, lines, readings, line_no, relevant_points, current_variable,
           in_final_answer_section, npc>>

mvars == <<mpc, iteration, case_no, all_data, files, reported, invocations, elapsed, ages,
           since_issue, unchecked>>

vars == <<extractor, compiled, nvars, mvars>>

\* re.compile of the three patterns of script e, tabulated over the lexicon
CompiledPatterns(e) == [l \in LineLexicon(Task(e)) |-> ReadLine(e, l)]

\* the loop state held in the variables
LoopState ==
    [relevant_points |-> relevant_points, current_variable |-> current_variable,
     in_final_answer_section |-> in_final_answer_section]

(***************************************************************************)
(* extract_bullet_points as a state machine: one action per branch of the  *)
(* loop body                                                               *)
(***************************************************************************)
\* relevant_points = {}; lines = response_text.split('\n'); flags initialised
EnterExtract ==
    /\ npc = "call"
    /\ lines' = split_lines(response_text)
    /\ readings' = [k \in 1..Len(lines') |-> compiled[lines'[k]]]
    /\ relevant_points' = LoopStart.relevant_points
    /\ current_variable' = LoopStart.current_variable
    /\ in_final_answer_section' = LoopStart.in_final_answer_section
    /\ line_no' = 0
    /\ npc' = "loop"
    /\ UNCHANGED <<extractor, compiled, response_text, mvars>>

\* the loop has a next line to process
InLoop == npc = "loop" /\ line_no < Len(lines)

\* one pass of the loop body that takes branch b
LoopPass(b) ==
    /\ Branch(extractor, LoopState, readings[line_no + 1]) = b
    /\ \E st \in {ProcessLine(extractor, LoopState, readings[line_no + 1])} :
           /\ relevant_points' = st.relevant_points
           /\ current_variable' = st.current_variable
           /\ in_final_answer_section' = st.in_final_answer_section
    /\ line_no' = line_no + 1
    /\ UNCHANGED <<extractor, compiled, response_text, lines, readings, npc, mvars>>

\* if final_answer_pattern.search(line): in_final_answer_section = True; continue
FinalAnswerLine == InLoop /\ LoopPass("marker")

\* match = bullet_point_pattern.match(line); if match: ...
BulletLine == InLoop /\ LoopPass("bullet")

\* elif in_final_answer_section: match = standalone_answer_pattern.match(line); if match: ...
StandaloneLine == InLoop /\ LoopPass("standalone")

\* elif current_variable and line: ...
ExplanationLine == InLoop /\ LoopPass("explanation")

\* no branch applies, or the branch that applies finds nothing to do
SkippedLine == InLoop /\ LoopPass("skip")

\* return relevant_points
ReturnPoints ==
    /\ npc = "loop"
    /\ line_no = Len(lines)
    /\ npc' = "done"
    /\ UNCHANGED <<extractor, compiled, response_text, lines, readings, line_no, relevant_points,
                   current_variable, in_final_answer_section, mvars>>

NormNext ==
    \/ EnterExtract
    \/ FinalAnswerLine
    \/ BulletLine
    \/ StandaloneLine
    \/ ExplanationLine
    \/ SkippedLine
    \/ ReturnPoints

(***************************************************************************)
(* The batch loop: main and process_and_run_llm_for_subfolder              *)
(***************************************************************************)
\* d[k] = v for every item (k, v), in order
RECURSIVE DictUpdate(_, _)
DictUpdate(d, items) ==
    IF items = <<>> THEN d
    ELSE DictUpdate(DictSet(d, items[1][1], items[1][2]), Tail(items))

\* data: relevant_points with the identifying keys, 'AI response' and
\* 'Parsed Data' set
Data(e, points, case, full_response) ==
    DictUpdate(points,
        [k \in 1..Len(IdentifierKeys(e)) |->
            <<IdentifierKeys(e)[k], IdentifierValue(IdentifierKeys(e)[k], case)>>]
        \o << <<"AI response", full_response>>, <<"Parsed Data", context(case)>> >>)

\* the row process_and_run_llm_for_subfolder builds from a provider answer;
\* iteration and case tell where the row comes from and are not stored
DataRow ==
    [iteration |-> iteration, case |-> case_no, points |-> relevant_points,
     response |-> response_text,
     data |-> Data(extractor, relevant_points, case_no, response_text)]

\* the cells of a row of pd.DataFrame(rows, columns=cols): the value of the
\* key, an empty cell (None, NaN) where the dict has no such key
Reindexed(data, cols) == [k \in 1..Len(cols) |-> <<cols[k], DictGet(data, cols[k])>>]

\* the columns of pd.DataFrame(rows): the keys of the dicts in order of first
\* appearance
RECURSIVE FrameColumns(_)
FrameColumns(rows) ==
    IF rows = <<>> THEN <<>>
    ELSE LET before == FrameColumns(SubSeq(rows, 1, Len(rows) - 1))
             d == rows[Len(rows)].data
             keys == [k \in 1..Len(d) |-> d[k][1]]
         IN  before \o SelectSeq(keys, LAMBDA c : \A j \in 1..Len(before) : before[j] # c)

\* save_to_excel: the rows of the file if it exists, the new row appended
\* with the cells of `columns`
save_to_excel(store, output_file, data) ==
    [f \in DOMAIN store \cup {output_file} |->
        IF f = output_file
        THEN (IF f \in DOMAIN store
              THEN Append(store[f], [data EXCEPT !.data = Reindexed(@, columns(extractor))])
              ELSE <<[data EXCEPT !.data = Reindexed(@, columns(extractor))]>>)
        ELSE store[f]]

\* pd.DataFrame(all_data).to_excel(output_file): the file holds exactly the rows
to_excel(store, output_file, rows) ==
    [f \in DOMAIN store \cup {output_file} |->
        IF f = output_file
        THEN [k \in 1..Len(rows) |-> [rows[k] EXCEPT !.data = Reindexed(@, FrameColumns(rows))]]
        ELSE store[f]]

\* what an earlier run of the script has left in a store: one row, of a case
\* whose answer asserted nothing (iteration 0 marks the earlier run)
StoredBefore(e) ==
    << [iteration |-> 0, case |-> 1, points |-> <<>>, response |-> "Reasoning...",
        data |-> IF SavesPerCase(e)
                 THEN Reindexed(Data(e, <<>>, 1, "Reasoning..."), columns(e))
                 ELSE Data(e, <<>>, 1, "Reasoning...")] >>

\* the streamed answer without its k-th fragment
DropFragment(fragments, k) ==
    SubSeq(fragments, 1, k - 1) \o SubSeq(fragments, k + 1, Len(fragments))

\* "".join(responses) where every line of the answer arrives as one fragment
JoinFragments(fragments) == IF fragments = <<>> THEN "" ELSE join_lines(fragments)

\* the subfolder loop moves on: the next subfolder, or the end of the loop
NextSubfolder ==
    IF case_no < NumCases
    THEN case_no' = case_no + 1 /\ mpc' = "case"
    ELSE case_no' = case_no /\ mpc' = "end_iteration"

\* the provider call of the current case is issued
Invoke(outcome) ==
    invocations' = Append(invocations,
        [iteration |-> iteration, case |-> case_no,
         temperature |-> temperature(extractor), outcome |-> outcome])

\* time.time() - start_time when a call issued after d time units has taken
\* c more
ElapsedAfterCall(d, c) == Saturated(elapsed + d + c)

\* the ages of the latest calls when a call is issued after d time units
AgesAtCall(d) == LastN(Append(Later(ages, since_issue + d), 0), rate_limit + 1)

\* if j % rate_limit == 0: sleep for what is left of MinWindow since
\* start_time, then start_time = time.time(); el and si are the clock readings
\* and n the number of calls since the statement last held, when the
\* statement is reached
Throttle(el, si, n) ==
    IF Throttled(extractor) /\ case_no % rate_limit = 0
    THEN /\ elapsed' = 0
         /\ since_issue' = IF MinWindow - el > 0 THEN Saturated(si + MinWindow - el) ELSE si
         /\ unchecked' = 0
    ELSE /\ elapsed' = el
         /\ since_issue' = si
         /\ unchecked' = n

\* the except clause re-raises: the run ends at the failed case
ProviderFails_aborts ==
    /\ mpc = "case"
    /\ reported' = reported \cup {<<iteration, case_no>>}
    /\ Invoke("error")
    /\ \E d \in PrepTimes(extractor), c \in CallTimes(extractor) :
          /\ ages' = AgesAtCall(d)
          /\ elapsed' = ElapsedAfterCall(d, c)
          /\ since_issue' = c
    /\ unchecked' = unchecked + 1
    /\ mpc' = "crashed"
    /\ UNCHANGED <<extractor, compiled, nvars, iteration, case_no, all_data, files>>

\* the except clause calls the provider again for the same subfolder
ProviderFails_retries ==
    /\ mpc = "case"
    /\ reported' = reported \cup {<<iteration, case_no>>}
    /\ Invoke("error")
    /\ \E d \in PrepTimes(extractor), c \in CallTimes(extractor) :
          /\ ages' = AgesAtCall(d)
          /\ elapsed' = ElapsedAfterCall(d, c)
          /\ since_issue' = c
    /\ unchecked' = unchecked + 1
    /\ UNCHANGED <<extractor, compiled, nvars, mpc, iteration, case_no, all_data, files>>

\* the provider call raises (or the local server answers with a status other
\* than 200): the except clause prints the error and returns None
ProviderFails ==
    /\ mpc = "case"
    /\ reported' = reported \cup {<<iteration, case_no>>}
    /\ Invoke("error")
    /\ \E d \in PrepTimes(extractor), c \in CallTimes(extractor) :
          /\ ages' = AgesAtCall(d)
          /\ Throttle(ElapsedAfterCall(d, c), c, unchecked + 1)
    /\ NextSubfolder
    /\ UNCHANGED <<extractor, compiled, nvars, iteration, all_data, files>>

\* the provider call returns a text: extract_bullet_points is called on it
ProviderAnswers ==
    /\ mpc = "case"
    /\ response_text' = CaseAnswer(Task(extractor), case_no)
    /\ Invoke("answer")
    /\ \E d \in PrepTimes(extractor), c \in CallTimes(extractor) :
          /\ ages' = AgesAtCall(d)
          /\ elapsed' = ElapsedAfterCall(d, c)
          /\ since_issue' = c
    /\ unchecked' = unchecked + 1
    /\ npc' = "call"
    /\ mpc' = "extract"
    /\ UNCHANGED <<extractor, compiled, lines, readings, line_no, relevant_points, current_variable,
                   in_final_answer_section, iteration, case_no, all_data, files, reported>>

\* the local server streams the answer and one streamed line is not valid
\* JSON: `except ValueError: continue` leaves that fragment out, the other
\* fragments are joined and extract_bullet_points is called on the result
\* (the model lets this happen to one stream of a run)
ProviderAnswersMalformed ==
    /\ mpc = "case"
    /\ Streams(extractor)
    /\ \A q \in 1..Len(invocations) : invocations[q].outcome # "malformed"
    /\ \E fragments \in {split_lines(CaseAnswer(Task(extractor), case_no))} :
       \E k \in 1..Len(fragments) :
          response_text' = JoinFragments(DropFragment(fragments, k))
    /\ Invoke("malformed")
    /\ ages' = AgesAtCall(0)
    /\ since_issue' = 0
    /\ unchecked' = unchecked + 1
    /\ npc' = "call"
    /\ mpc' = "extract"
    /\ UNCHANGED <<extractor, compiled, lines, readings, line_no, relevant_points, current_variable,
                   in_final_answer_section, iteration, case_no, all_data, files, reported,
                   elapsed>>

\* extract_bullet_points has returned
Extracted == mpc = "extract" /\ npc = "done"

\* save_to_excel(data, output_file) at the end of process_and_run_llm_for_subfolder
SaveRecord ==
    /\ Extracted
    /\ SavesPerCase(extractor) /\ OutputFileIsGlobal(extractor)
    /\ files' = save_to_excel(files, OutputFile(extractor, iteration), DataRow)
    /\ npc' = "idle"
    /\ Throttle(elapsed, since_issue, unchecked)
    /\ NextSubfolder
    /\ UNCHANGED <<extractor, compiled, response_text, lines, readings, line_no, relevant_points,
                   current_variable, in_final_answer_section, iteration, all_data, reported,
                   invocations, ages>>

\* pd.read_excel or to_excel raises inside save_to_excel (the file is locked,
\* unreadable, the disk is full): no except clause catches it on the way up
SaveRecordFails ==
    /\ Extracted
    /\ SavesPerCase(extractor) /\ OutputFileIsGlobal(extractor)
    /\ npc' = "idle"
    /\ mpc' = "crashed"
    /\ UNCHANGED <<extractor, compiled, response_text, lines, readings, line_no, relevant_points,
                   current_variable, in_final_answer_section, iteration, case_no, all_data,
                   files, reported, invocations, elapsed, ages, since_issue, unchecked>>

\* the same call where output_file is not a global name: NameError, which no
\* except clause catches
SaveRecordRaises ==
    /\ Extracted
    /\ SavesPerCase(extractor) /\ ~OutputFileIsGlobal(extractor)
    /\ npc' = "idle"
    /\ mpc' = "crashed"
    /\ UNCHANGED <<extractor, compiled, response_text, lines, readings, line_no, relevant_points,
                   current_variable, in_final_answer_section, iteration, case_no, all_data,
                   files, reported, invocations, elapsed, ages, since_issue, unchecked>>

\* main collects the record under `if relevant_points:`, a record without
\* variables is dropped
CollectRecord_drops_empty ==
    /\ Extracted
    /\ ~SavesPerCase(extractor)
    /\ all_data' = IF relevant_points # <<>> THEN Append(all_data, DataRow) ELSE all_data
    /\ npc' = "idle"
    /\ Throttle(elapsed, since_issue, unchecked)
    /\ NextSubfolder
    /\ UNCHANGED <<extractor, compiled, response_text, lines, readings, line_no, relevant_points,
                   current_variable, in_final_answer_section, iteration, files, reported,
                   invocations, ages>>

\* return data; in main: if result: all_data.append(result)
CollectRecord ==
    /\ Extracted
    /\ ~SavesPerCase(extractor)
    /\ all_data' = Append(all_data, DataRow)
    /\ npc' = "idle"
    /\ Throttle(elapsed, since_issue, unchecked)
    /\ NextSubfolder
    /\ UNCHANGED <<extractor, compiled, response_text, lines, readings, line_no, relevant_points,
                   current_variable, in_final_answer_section, iteration, files, reported,
                   invocations, ages>>

\* the end of an iteration without `if all_data:` before the write
EndIteration_unguarded ==
    /\ mpc = "end_iteration"
    /\ files' = IF ~SavesPerCase(extractor)
                THEN to_excel(files, OutputFile(extractor, iteration), all_data)
                ELSE files
    /\ IF iteration < iteration_n(extractor)
       THEN /\ iteration' = iteration + 1 /\ case_no' = 1 /\ all_data' = <<>> /\ mpc' = "case"
            /\ elapsed' = 0
       ELSE /\ iteration' = iteration /\ case_no' = case_no /\ all_data' = all_data
            /\ mpc' = "done"
            /\ elapsed' = elapsed
    /\ UNCHANGED <<extractor, compiled, nvars, reported, invocations, ages, since_issue,
                   unchecked>>

\* after the subfolder loop: `if all_data:` the iteration's file is written;
\* then the next iteration starts with all_data = [] (and start_time =
\* time.time()), or main ends
EndIteration ==
    /\ mpc = "end_iteration"
    /\ files' = IF ~SavesPerCase(extractor) /\ all_data # <<>>
                THEN to_excel(files, OutputFile(extractor, iteration), all_data)
                ELSE files
    /\ IF iteration < iteration_n(extractor)
       THEN /\ iteration' = iteration + 1 /\ case_no' = 1 /\ all_data' = <<>> /\ mpc' = "case"
            /\ elapsed' = 0
       ELSE /\ iteration' = iteration /\ case_no' = case_no /\ all_data' = all_data
            /\ mpc' = "done"
            /\ elapsed' = elapsed
    /\ UNCHANGED <<extractor, compiled, nvars, reported, invocations, ages, since_issue,
                   unchecked>>

\* df.to_excel(output_file) raises at the end of an iteration: no except
\* clause catches it, main ends with the exception
WriteIterationFails ==
    /\ mpc = "end_iteration"
    /\ ~SavesPerCase(extractor) /\ all_data # <<>>
    /\ mpc' = "crashed"
    /\ UNCHANGED <<extractor, compiled, nvars, iteration, case_no, all_data, files, reported,
                   invocations, elapsed, ages, since_issue, unchecked>>

Init ==
    /\ extractor \in Extractors
    /\ compiled = CompiledPatterns(extractor)
    /\ response_text = ""
    /\ lines = <<>>
    /\ readings = <<>>
    /\ line_no = 0
    /\ relevant_points = <<>>
    /\ current_variable = NoneVal
    /\ in_final_answer_section = FALSE
    /\ npc = "idle"
    /\ mpc = "case"
    /\ iteration = 1
    /\ case_no = 1
    /\ all_data = <<>>
    /\ files \in {[f \in {} |-> <<>>], [f \in OutputFiles(extractor) |-> StoredBefore(extractor)]}
    /\ reported = {}
    /\ invocations = <<>>
    /\ elapsed = 0
    /\ ages = <<>>
    /\ since_issue = 0
    /\ unchecked = 0

Next ==
    \/ ProviderFails
    \/ ProviderAnswers
    \/ ProviderAnswersMalformed
    \/ EnterExtract
    \/ FinalAnswerLine
    \/ BulletLine
    \/ StandaloneLine
    \/ ExplanationLine
    \/ SkippedLine
    \/ ReturnPoints
    \/ SaveRecord
    \/ SaveRecordFails
    \/ SaveRecordRaises
    \/ CollectRecord
    \/ EndIteration
    \/ WriteIterationFails

Spec == Init /\ [][Next]_vars

\* extract_bullet_points called on its own, on any model answer of the script's task
NormInit ==
    /\ extractor \in Extractors
    /\ compiled = CompiledPatterns(extractor)
    /\ response_text \in {join_lines(a) : a \in AnswerLines(Task(extractor))}
    /\ lines = <<>>
    /\ readings = <<>>
    /\ line_no = 0
    /\ relevant_points = <<>>
    /\ current_variable = NoneVal
    /\ in_final_answer_section = FALSE
    /\ npc = "call"
    /\ mpc = "unit"
    /\ iteration = 1
    /\ case_no = 1
    /\ all_data = <<>>
    /\ files = [f \in {} |-> <<>>]
    /\ reported = {}
    /\ invocations = <<>>
    /\ elapsed = 0
    /\ ages = <<>>
    /\ since_issue = 0
    /\ unchecked = 0

SpecNorm == NormInit /\ [][NormNext]_vars

(***************************************************************************)
(* Vocabulary of the properties: line shapes read off the text of a line,  *)
(* independently of the patterns of the scripts                            *)
(***************************************************************************)
StartsWith(s, p) == Len(s) >= Len(p) /\ SubSeq(s, 1, Len(p)) = p

EndsWith(s, p) == Len(s) >= Len(p) /\ SubSeq(s, Len(s) - Len(p) + 1, Len(s)) = p

HasColon(s) == \E i \in 1..Len(s) : CharAt(s, i) = ":"

\* the bullet decorations: -, the bullet glyph, *, or a digit 1-5 with a period
BulletMarks == {"-", "@", "*", "1.", "2.", "3.", "4.", "5."}

\* the value vocabulary as spelled
Vocabulary == {"Yes", "No", "Ja", "Nein"}

\* spellings of value tokens in other letter cases
OtherSpellings == {"yes", "YES", "no", "NO", "ja", "JA", "nein", "NEIN"}

\* the uncertain tokens of the Disease Course task
UncertainTokens == {"provided", "know"}

\* the uncertain answers of the Disease Course task
UncertainAnswers == {"Not provided", "don't know"}

\* the <<label, answer>> readings of a line of the shape '<bullet> Label: Answer'
BulletShape(line, answers) ==
    {<<SubSeq(line, Len(ba[1]) + 2, Len(line) - Len(ba[2]) - 2), ba[2]>> :
        ba \in {x \in BulletMarks \X answers :
                   /\ StartsWith(line, x[1] \o " ")
                   /\ EndsWith(line, ": " \o x[2])
                   /\ Len(line) > Len(x[1]) + Len(x[2]) + 3
                   /\ ~HasColon(SubSeq(line, Len(x[1]) + 2, Len(line) - Len(x[2]) - 2))}}

\* the <<label, answer>> readings of a bare line 'Label: Answer' with no bullet decoration
BareShape(line, answers) ==
    {<<SubSeq(line, 1, Len(line) - Len(a) - 2), a>> :
        a \in {x \in answers :
                  /\ EndsWith(line, ": " \o x)
                  /\ Len(line) > Len(x) + 2
                  /\ ~HasColon(SubSeq(line, 1, Len(line) - Len(x) - 2))
                  /\ \A b \in BulletMarks : ~StartsWith(line, b)}}

\* the canonical name of a label in the taxonomy of the script's task, or None
Canonical(label) == standardize_variable_name(Task(extractor), lower(strip(label)))

\* the value token an answer token stands for
ExpectedValue(token) ==
    IF lower(token) \in {"yes", "ja"} THEN "Yes"
    ELSE IF lower(token) \in {"no", "nein"} THEN "No"
    ELSE Sentinel

\* the line holds the phrase 'final answer' in any letter case
HoldsFinalAnswer(line) == Contains("final answer", lower(line))

\* the line holds the phrase 'final answer' as whole words, in any letter case
IsFinalAnswerLine(line) ==
    \E i \in 1..(Len(line) - 11) :
        /\ lower(SubSeq(line, i, i + 11)) = "final answer"
        /\ (i = 1 \/ ~IsWordChar(CharAt(line, i - 1)))
        /\ (i + 11 = Len(line) \/ ~IsWordChar(CharAt(line, i + 12)))

\* what line k of the answer stores, read alone: <<name, value>>, or <<>> for nothing
Stores(k) ==
    IF readings[k].marker THEN <<>>
    ELSE IF readings[k].bullet.matched
    THEN (IF Truthy(readings[k].bullet.normalized_variable)
          THEN <<readings[k].bullet.normalized_variable, readings[k].bullet.value>> ELSE <<>>)
    ELSE IF readings[k].standalone.matched /\ (\E j \in 1..(k - 1) : readings[j].marker)
    THEN (IF Truthy(readings[k].standalone.normalized_variable)
          THEN <<readings[k].standalone.normalized_variable, readings[k].standalone.value>>
          ELSE <<>>)
    ELSE <<>>

\* some line after line k is a line for variable V
LaterLineFor(V, k) ==
    \E j \in (k + 1)..Len(lines) :
        \/ readings[j].bullet.normalized_variable = V
        \/ readings[j].standalone.normalized_variable = V

\* extract_bullet_points has returned relevant_points
Returned == npc = "done"

\* the loop body processes the line numbered line_no + 1 in this step
LineStep == npc = "loop" /\ line_no < Len(lines) /\ line_no' = line_no + 1

(***************************************************************************)
(* C1                                                                      *)
(***************************************************************************)
\* the step in which the provider call of the current case fails
FailureStep == mpc = "case" /\ reported' # reported

\* C1: when the provider call for a case fails, the case is reported, no record
\* is appended to all_data or to any store, and the loop goes on to the next case
\* of the iteration (or to the end of the iteration, from where every remaining
\* iteration is run unless writing the records collected in the iteration
\* raises); the run ends only after the last case of the last iteration, and it
\* never crashes in a failure step.
C1_ProviderFailureSkipsCase ==
    [][ /\ FailureStep =>
            /\ <<iteration, case_no>> \in reported'
            /\ all_data' = all_data /\ files' = files
            /\ iteration' = iteration
            /\ IF case_no < NumCases
               THEN case_no' = case_no + 1 /\ mpc' = "case"
               ELSE mpc' = "end_iteration"
        /\ (mpc # "done" /\ mpc' = "done") =>
            mpc = "end_iteration" /\ iteration = iteration_n(extractor)
        /\ (mpc = "end_iteration" /\ iteration < iteration_n(extractor) /\ mpc' # mpc) =>
            \/ mpc' = "case" /\ iteration' = iteration + 1 /\ case_no' = 1
            \/ mpc' = "crashed" /\ all_data # <<>>
        /\ (mpc' = "crashed" /\ mpc # "crashed") => ~FailureStep ]_vars

\* a run has ended in which a case failed and a later case of the same iteration
\* and a case of a later iteration were recorded
C1_Witness ==
    /\ mpc = "done"
    /\ \E r \in reported :
        /\ \E f \in DOMAIN files : \E k \in 1..Len(files[f]) :
              files[f][k].iteration = r[1] /\ files[f][k].case > r[2]
        /\ \E f \in DOMAIN files : \E k \in 1..Len(files[f]) : files[f][k].iteration > r[1]

(***************************************************************************)
(* C2                                                                      *)
(***************************************************************************)
\* line k is a bullet line '<bullet> Label: Token' whose label canonicalizes to
\* V, with no later line for V; exceptMarkers leaves out the lines that hold the
\* phrase 'final answer' themselves
BulletLineFor(k, label, exceptMarkers) ==
    /\ Truthy(Canonical(label))
    /\ ~LaterLineFor(Canonical(label), k)
    /\ exceptMarkers => ~HoldsFinalAnswer(lines[k])

BulletLinesRecorded(exceptMarkers) ==
    Returned =>
        \A k \in 1..Len(lines) : \A lt \in BulletShape(lines[k], Vocabulary) :
            BulletLineFor(k, lt[1], exceptMarkers) =>
                /\ DictHas(relevant_points, Canonical(lt[1]))
                /\ DictGet(relevant_points, Canonical(lt[1])) = ExpectedValue(lt[2])

\* C2 as stated: every bullet line '<bullet> Label: Token' whose label
\* canonicalizes to V, with no later line for V, makes the returned record map V
\* to the normalized token, before or after a marker line.
C2_BulletLineRecorded_AsStated == BulletLinesRecorded(FALSE)

\* C2 amended: the same for every such bullet line that does not itself hold the
\* phrase 'final answer'.
C2_BulletLineRecorded == BulletLinesRecorded(TRUE)

\* a returned record holds the value of a bullet line that came after a marker line
C2_Witness ==
    /\ Returned
    /\ \E k \in 2..Len(lines) : \E lt \in BulletShape(lines[k], Vocabulary) :
        /\ BulletLineFor(k, lt[1], TRUE)
        /\ \E j \in 1..(k - 1) : HoldsFinalAnswer(lines[j])
        /\ DictHas(relevant_points, Canonical(lt[1]))

(***************************************************************************)
(* C3                                                                      *)
(***************************************************************************)
\* C3: in every extractor, the step over a bare line 'Label: Value' whose label
\* canonicalizes to V leaves the record unchanged when no earlier line holds the
\* phrase 'final answer', and records the value under V when an earlier line does.
C3_FinalAnswerGating ==
    [][ LineStep =>
          \A lt \in BareShape(lines[line_no + 1],
                              Vocabulary \cup OtherSpellings \cup UncertainTokens) :
              Truthy(Canonical(lt[1])) =>
                  IF \E j \in 1..line_no : IsFinalAnswerLine(lines[j])
                  THEN /\ DictHas(relevant_points', Canonical(lt[1]))
                       /\ DictGet(relevant_points', Canonical(lt[1]))
                              \in {lt[2], ExpectedValue(lt[2])}
                  ELSE relevant_points' = relevant_points ]_vars

(***************************************************************************)
(* C4                                                                      *)
(***************************************************************************)
\* C4: the step over a non-empty line that matches neither the bullet nor the
\* standalone shape and immediately follows a recognized bullet line for V
\* appends the line, after a delimiter, to the entry of V.
C4_ContinuationAppended ==
    [][ ( /\ LineStep
          /\ line_no >= 1
          /\ ~readings[line_no].marker
          /\ readings[line_no].bullet.matched
          /\ Truthy(readings[line_no].bullet.normalized_variable)
          /\ readings[line_no + 1].line # ""
          /\ ~readings[line_no + 1].marker
          /\ ~readings[line_no + 1].bullet.matched
          /\ BulletShape(lines[line_no + 1], Vocabulary \cup OtherSpellings) = {}
          /\ BareShape(lines[line_no + 1], Vocabulary \cup OtherSpellings) = {}
          /\ ~readings[line_no + 1].standalone.matched )
        => /\ DictHas(relevant_points', readings[line_no].bullet.normalized_variable)
           /\ \E old \in {DictGet(relevant_points, readings[line_no].bullet.normalized_variable)} :
              \E new \in {DictGet(relevant_points', readings[line_no].bullet.normalized_variable)} :
                 /\ StartsWith(new, old)
                 /\ EndsWith(new, readings[line_no + 1].line)
                 /\ Len(new) > Len(old) + Len(readings[line_no + 1].line) ]_vars

(***************************************************************************)
(* C5                                                                      *)
(***************************************************************************)
\* the scenario answer
C5_Answer ==
    "Reasoning...\nFinal answer:\nCSF Leak: No\nInfection: No\nFacial Palsy: Yes - mild, resolved in days"

\* the postoperative scripts whose normalizer has the final-answer section have
\* returned from the scenario answer
C5_Case == Returned /\ extractor \in {"PostOP_Claude", "PostOP_OpenAI"} /\ response_text = C5_Answer

\* C5 as stated: the scenario answer gives CSF Leak = No, Infection = No and
\* Facial Palsy = 'Yes - mild, resolved in days'.
C5_Scenario_AsStated ==
    C5_Case =>
        /\ DictKeys(relevant_points) = {"CSF Leak", "Infection", "Facial Palsy"}
        /\ DictGet(relevant_points, "CSF Leak") = "No"
        /\ DictGet(relevant_points, "Infection") = "No"
        /\ DictGet(relevant_points, "Facial Palsy") = "Yes - mild, resolved in days"

\* C5 amended: the scenario answer gives CSF Leak = No, Infection = No and
\* Facial Palsy = Yes; the text after the value token is dropped.
C5_Scenario ==
    C5_Case =>
        relevant_points = <<<<"CSF Leak", "No">>, <<"Infection", "No">>, <<"Facial Palsy", "Yes">>>>

\* the scenario answer has been processed and Facial Palsy holds a value
C5_Witness == C5_Case /\ DictHas(relevant_points, "Facial Palsy")

(***************************************************************************)
(* C6                                                                      *)
(***************************************************************************)
\* C6: in the Disease Course extractors, a bullet line whose label canonicalizes
\* to V and whose answer is 'Not provided' or "don't know", with no later line
\* for V, leaves V recorded with the sentinel value.
C6_UncertainIsSentinel ==
    (Returned /\ extractor \in DisCourseExtractors) =>
        \A k \in 1..Len(lines) : \A lt \in BulletShape(lines[k], UncertainAnswers) :
            (Truthy(Canonical(lt[1])) /\ ~LaterLineFor(Canonical(lt[1]), k)
                /\ DictHas(relevant_points, Canonical(lt[1])))
            => DictGet(relevant_points, Canonical(lt[1])) = Sentinel

(***************************************************************************)
(* C7                                                                      *)
(***************************************************************************)
\* the record with the one entry Facial Numbness = Yes
NumbnessYes == <<<<"Facial Numbness", "Yes">>>>

\* C7 as stated: '- Taubheit: Ja' and '- Numbness: Yes' both give the entry
\* Facial Numbness = Yes.
C7_Bilingual_AsStated ==
    (Returned /\ response_text \in {"- Taubheit: Ja", "- Numbness: Yes"}) =>
        relevant_points = NumbnessYes

\* C7 amended: '- Taubheit: Ja' and '- Facial Numbness: Yes' both give the one
\* entry Facial Numbness = Yes, in every preoperative and postoperative script.
C7_Bilingual ==
    (Returned /\ response_text \in {"- Taubheit: Ja", "- Facial Numbness: Yes"}) =>
        relevant_points = NumbnessYes

\* the German line has been processed by a script of either task
C7_Witness ==
    Returned /\ response_text = "- Taubheit: Ja" /\ relevant_points = NumbnessYes

(***************************************************************************)
(* C8                                                                      *)
(***************************************************************************)
\* lines j < k are recognized for the same variable with different values, and
\* no line after k is recognized for it
Conflict(j, k) ==
    /\ j < k
    /\ Stores(j) # <<>> /\ Stores(k) # <<>>
    /\ Stores(j)[1] = Stores(k)[1]
    /\ Stores(j)[2] # Stores(k)[2]
    /\ \A m \in (k + 1)..Len(lines) : Stores(m) = <<>> \/ Stores(m)[1] # Stores(k)[1]

\* C8: of two recognized lines for the same canonical variable with different
\* values, the returned record holds the value of the later one.
C8_LaterLineWins ==
    Returned =>
        \A j, k \in 1..Len(lines) :
            Conflict(j, k) => DictGet(relevant_points, Stores(k)[1]) = Stores(k)[2]

\* a returned answer held a bullet line and a later standalone line in conflict
C8_Witness ==
    /\ Returned
    /\ \E j, k \in 1..Len(lines) :
        Conflict(j, k) /\ readings[j].bullet.matched /\ ~readings[k].bullet.matched

(***************************************************************************)
(* C9                                                                      *)
(***************************************************************************)
\* the canonical names of the script's task
TaskNames == {CanonicalNames(Task(extractor))[i] : i \in 1..Len(CanonicalNames(Task(extractor)))}

\* the line is a bullet or bare 'Label: Token' line whose label canonicalizes to nothing
UncanonicalLine(line) ==
    \E lt \in BulletShape(line, Vocabulary \cup OtherSpellings)
              \cup BareShape(line, Vocabulary \cup OtherSpellings) :
        ~Truthy(Canonical(lt[1]))

\* C9: every key of the record is a canonical name of the task's taxonomy after
\* every step, and the step over a line whose label canonicalizes to nothing
\* leaves the record as it was.
C9_OnlyCanonicalKeys ==
    [][ /\ DictKeys(relevant_points') \subseteq TaskNames
        /\ (LineStep /\ UncanonicalLine(lines[line_no + 1])) =>
               relevant_points' = relevant_points ]_vars

\* a returned record is not empty though a line after the first was a bullet line
\* with an uncanonical label
C9_Witness ==
    /\ Returned
    /\ relevant_points # <<>>
    /\ \E k \in 2..Len(lines) : UncanonicalLine(lines[k]) /\ readings[k].bullet.matched

(***************************************************************************)
(* C10                                                                     *)
(***************************************************************************)
\* C10: every value of the record is one of Yes, No and the sentinel.
C10_ValuesAreTokens ==
    \A i \in 1..Len(relevant_points) : relevant_points[i][2] \in {"Yes", "No", Sentinel}

(***************************************************************************)
(* Vocabulary of the properties of the stores                              *)
(***************************************************************************)
\* the elements of a sequence
Range(s) == {s[k] : k \in 1..Len(s)}

\* the rows of store f that this run has written
RunRows(f) == {k \in 1..Len(files[f]) : files[f][k].iteration >= 1}

\* the rows of store f that this run has written in iteration i
IterationRows(f, i) == {k \in 1..Len(files[f]) : files[f][k].iteration = i}

\* the cases of iteration i whose provider call has returned an answer
Answered(i) ==
    {invocations[q].case :
        q \in {n \in 1..Len(invocations) :
                  invocations[n].iteration = i /\ invocations[n].outcome # "error"}}

\* main is between two cases, or past the last one
BetweenCases == mpc \in {"case", "end_iteration", "done"}

(***************************************************************************)
(* C11                                                                     *)
(***************************************************************************)
\* C11: every row this run has written to a store has a case-identifier
\* column, a column for every canonical variable of the task, the raw answer
\* and the context, with an empty cell under each canonical variable the
\* record did not assert; and when the run is over, the store of an iteration
\* holds as many rows of that iteration as cases were answered in it.
C11_SchemaStability ==
    /\ \A f \in DOMAIN files : \A k \in RunRows(f) :
          /\ IdentifierKeys(extractor) # <<>>
          /\ \A c \in Range(IdentifierKeys(extractor)) \cup {"AI response", "Parsed Data"} :
                DictHas(files[f][k].data, c)
          /\ \A c \in Range(CanonicalNames(Task(extractor))) :
                /\ DictHas(files[f][k].data, c)
                /\ ~DictHas(files[f][k].points, c) => DictGet(files[f][k].data, c) = NoneVal
    /\ mpc = "done" =>
          \A i \in 1..iteration_n(extractor) :
              Answered(i) # {} =>
                  /\ OutputFile(extractor, i) \in DOMAIN files
                  /\ Cardinality(IterationRows(OutputFile(extractor, i), i))
                        = Cardinality(Answered(i))

(***************************************************************************)
(* C12                                                                     *)
(***************************************************************************)
\* store f is written in this step
Written(f) == f \notin DOMAIN files \/ files'[f] # files[f]

\* C12: a step that writes a store that exists keeps its rows and puts the new
\* rows after them; a step that writes a store that does not exist creates it
\* with the new rows.
C12_AppendOrCreate ==
    [][ \A f \in DOMAIN files' :
           Written(f) =>
               IF f \in DOMAIN files
               THEN /\ Len(files'[f]) > Len(files[f])
                    /\ SubSeq(files'[f], 1, Len(files[f])) = files[f]
               ELSE files'[f] # <<>> ]_vars

(***************************************************************************)
(* C13                                                                     *)
(***************************************************************************)
\* store f holds a row of case c of iteration i
HoldsRow(f, i, c) ==
    /\ f \in DOMAIN files
    /\ \E k \in 1..Len(files[f]) : files[f][k].iteration = i /\ files[f][k].case = c

\* C13: whenever main is between two cases of an iteration (or past the last
\* one), the store of the iteration holds a row for every case answered so
\* far in the iteration.
C13_PerRecordPersistence ==
    BetweenCases =>
        \A c \in Answered(iteration) : HoldsRow(OutputFile(extractor, iteration), iteration, c)

(***************************************************************************)
(* C14                                                                     *)
(***************************************************************************)
\* main or process_and_run_llm_for_subfolder is about to write the store of a
\* file name that resolves
WriteAttempt ==
    /\ OutputFileIsGlobal(extractor)
    /\ \/ Extracted /\ SavesPerCase(extractor)
       \/ mpc = "end_iteration" /\ ~SavesPerCase(extractor) /\ all_data # <<>>

\* the step in which that write raises: the program moves on and the store is
\* as it was
PersistenceFailureStep == WriteAttempt /\ mpc' # mpc /\ files' = files

\* C14: when the store cannot be read or written in an iteration K that is
\* not the last, the loop of iteration K is left and the run goes on with the
\* first case of iteration K+1.
C14_PersistenceFailureSkipsIteration ==
    [][ (PersistenceFailureStep /\ iteration < iteration_n(extractor)) =>
            mpc' = "case" /\ iteration' = iteration + 1 /\ case_no' = 1 ]_vars

(***************************************************************************)
(* C15                                                                     *)
(***************************************************************************)
\* the latest call of a throttled script is the first one after a throttle
\* check: call number rate_limit + 1 counted from the first call of the window
\* that the check closed
FirstCallAfterThrottle ==
    /\ Throttled(extractor)
    /\ invocations # <<>>
    /\ invocations[Len(invocations)].case > 1
    /\ (invocations[Len(invocations)].case - 1) % rate_limit = 0

\* C15: call number rate_limit + 1 is issued no earlier than 60 time units
\* after the first call of the window.
C15_WindowRespected == FirstCallAfterThrottle => ages[1] >= 60

(***************************************************************************)
(* C16                                                                     *)
(***************************************************************************)
\* C16: the provider calls of a run are, in order, case 1..NumCases of
\* iteration 1, then case 1..NumCases of iteration 2, and so on, each once:
\* the q-th call is for the case at position q of that schedule, the call of
\* the current case is issued only after the calls of all cases before it
\* have ended, and a run that main completes has issued
\* iteration_n * NumCases calls.
C16_EachCaseOncePerIteration ==
    /\ \A q \in 1..Len(invocations) :
          /\ invocations[q].iteration = ((q - 1) \div NumCases) + 1
          /\ invocations[q].case = ((q - 1) % NumCases) + 1
    /\ mpc = "case" => Len(invocations) = (iteration - 1) * NumCases + case_no - 1
    /\ mpc = "done" => Len(invocations) = iteration_n(extractor) * NumCases

\* a run of several iterations has been completed in which a call had failed
C16_Witness ==
    /\ mpc = "done"
    /\ iteration_n(extractor) > 1
    /\ \E q \in 1..Len(invocations) :
          invocations[q].outcome = "error" /\ q < Len(invocations)
    /\ Len(invocations) = iteration_n(extractor) * NumCases

(***************************************************************************)
(* C17                                                                     *)
(***************************************************************************)
\* all_data holds a row of case c of iteration i
Collected(i, c) == \E k \in 1..Len(all_data) : all_data[k].iteration = i /\ all_data[k].case = c

\* C17: once process_and_run_llm_for_subfolder has returned from a case whose
\* streamed answer held a line that is not valid JSON, the case has been
\* reported as failed and neither all_data nor any store holds a row of it.
C17_MalformedStreamFails ==
    BetweenCases =>
        \A q \in 1..Len(invocations) :
            invocations[q].outcome = "malformed" =>
                /\ <<invocations[q].iteration, invocations[q].case>> \in reported
                /\ ~Collected(invocations[q].iteration, invocations[q].case)
                /\ \A f \in DOMAIN files :
                      ~HoldsRow(f, invocations[q].iteration, invocations[q].case)

(***************************************************************************)
(* C18                                                                     *)
(***************************************************************************)
\* C18: every provider call of a run carries the temperature 0.
C18_TemperatureZero ==
    \A q \in 1..Len(invocations) : invocations[q].temperature = <<0>>

(***************************************************************************)
(* C19                                                                     *)
(***************************************************************************)
\* C19: as long as no case of iteration i has been answered, the store of
\* iteration i does not exist, or it is the file an earlier run has left,
\* unchanged: the iteration neither creates nor writes it.
C19_EmptyIterationWritesNoStore ==
    \A i \in 1..iteration_n(extractor) :
        Answered(i) = {} =>
            \/ OutputFile(extractor, i) \notin DOMAIN files
            \/ files[OutputFile(extractor, i)] = StoredBefore(extractor)

\* a run has been completed in which every call of one iteration failed and
\* that iteration has no store, while another iteration has written its store
C19_Witness ==
    /\ mpc = "done"
    /\ \E i \in 1..iteration_n(extractor) :
          /\ Answered(i) = {}
          /\ \A c \in 1..NumCases : <<i, c>> \in reported
          /\ OutputFile(extractor, i) \notin DOMAIN files
    /\ \E j \in 1..iteration_n(extractor) :
          /\ OutputFile(extractor, j) \in DOMAIN files
          /\ IterationRows(OutputFile(extractor, j), j) # {}

(***************************************************************************)
(* C20                                                                     *)
(***************************************************************************)
\* what the identifying columns of a stored row hold
RowIdentifier(row) ==
    [k \in 1..Len(IdentifierKeys(extractor)) |-> DictGet(row.data, IdentifierKeys(extractor)[k])]

\* C20: every row this run has written holds, in an identifying column, the
\* folder name of the case it came from, and no two rows of a store hold the
\* same identifier.
C20_RowsKeyedByCase ==
    \A f \in DOMAIN files :
        /\ \A k \in RunRows(f) :
              /\ IdentifierKeys(extractor) # <<>>
              /\ \E c \in Range(RowIdentifier(files[f][k])) : c = subfolder_name(files[f][k].case)
        /\ \A j, k \in 1..Len(files[f]) :
              j # k => RowIdentifier(files[f][j]) # RowIdentifier(files[f][k])

(***************************************************************************)
(* C21                                                                     *)
(***************************************************************************)
\* the numbers of a set in ascending order
RECURSIVE Ascending(_)
Ascending(S) ==
    IF S = {} THEN <<>>
    ELSE LET least == CHOOSE x \in S : \A y \in S : x <= y
         IN  <<least>> \o Ascending(S \ {least})

\* the cases of the rows of iteration i in store f, in the order of the rows
RowCases(f, i) ==
    IF f \notin DOMAIN files THEN <<>>
    ELSE LET rows == SelectSeq(files[f], LAMBDA r : r.iteration = i)
         IN  [k \in 1..Len(rows) |-> rows[k].case]

\* iteration i of the run is over: main has gone on to a later iteration or
\* has returned
Completed(i) == i < iteration \/ (i = iteration /\ mpc = "done")

\* C21: once iteration K is completed, and whatever happens afterwards, the
\* rows of iteration K in its store are one row for each case whose provider
\* call returned an answer in iteration K, in case-list order (a case whose
\* answer gave no variable included), and none for a case whose call failed;
\* where the iteration has a store of its own and a case was answered, the
\* store holds nothing but these rows.
C21_StoreHoldsAnsweredCases ==
    \A i \in 1..iteration_n(extractor) :
        Completed(i) =>
            /\ RowCases(OutputFile(extractor, i), i) = Ascending(Answered(i))
            /\ \A c \in 1..NumCases :
                  <<i, c>> \in reported => ~HoldsRow(OutputFile(extractor, i), i, c)
            /\ (~SinglePass(extractor) /\ Answered(i) # {}) =>
                  Len(files[OutputFile(extractor, i)]) = Cardinality(Answered(i))

\* a run of several iterations is over: in one iteration a call failed, a
\* later case was answered and a case whose answer gave no variable has a row;
\* in a later iteration a call failed too
C21_Witness ==
    /\ mpc = "done"
    /\ \E i \in 1..(iteration_n(extractor) - 1) : \E c \in 1..(NumCases - 1) :
          /\ <<i, c>> \in reported
          /\ Answered(i) # {}
          /\ \E k \in IterationRows(OutputFile(extractor, i), i) :
                /\ files[OutputFile(extractor, i)][k].points = <<>>
                /\ files[OutputFile(extractor, i)][k].case > c
          /\ \E j \in (i + 1)..iteration_n(extractor) : \E d \in 1..NumCases :
                <<j, d>> \in reported

(***************************************************************************)
(* C22                                                                     *)
(***************************************************************************)
\* the taxonomy of a task as the list of its rules in the order the function
\* tests them, each the pair of its fragments and its canonical name
TaxonomyRules(task) ==
    IF task = "PreOP"
    THEN << <<{"sudden", "facial pain"}, "Trigeminal Pain">>,
            <<{"facial numbness", "taub"}, "Facial Numbness">>,
            <<{"vertigo", "dizz"}, "Vertigo">>,
            <<{"lacrimation", "tear"}, "Lacrimation">>,
            <<{"spasm", "muscle"}, "Facial Muscle Spasm">>,
            <<{"other"}, "Other">> >>
    ELSE IF task = "PostOP"
    THEN << <<{"leak", "liquor"}, "CSF Leak">>,
            <<{"infection", "infektion"}, "Infection">>,
            <<{"facial palsy", "gesichtsl{hmung"}, "Facial Palsy">>,
            <<{"facial numbness", "taub"}, "Facial Numbness">>,
            <<{"hearing loss", "h|rverlust"}, "Hearing Loss">> >>
    ELSE << <<{"free of pain after second surgery"}, "Free of pain after second surgery">>,
            <<{"recurrence after second surgery"}, "Recurrence after second surgery">>,
            <<{"improvement", "betterment"}, "Symptom-improvement after 1. surgery">>,
            <<{"free of pain after first", "painfree after first", "painfree after 1",
               "free of pain after 1"}, "Free of pain after first surgery">>,
            <<{"recurrence after first", "recurrence after 1"}, "Recurrence after first surgery">>,
            <<{"second surgery", "2nd surgery", "2. surgery", "a second surgery was carried out"},
              "Second surgery">>,
            <<{"thermocoag", "coagulation"}, "Thermocoagulation">> >>

\* the canonical name of the first rule of the list one of whose fragments is
\* a substring of the phrase, None when there is no such rule
FirstRuleName(rules, phrase) ==
    LET hits == {k \in 1..Len(rules) : \E f \in rules[k][1] : Contains(f, phrase)}
    IN  IF hits = {} THEN NoneVal
        ELSE rules[CHOOSE k \in hits : \A j \in hits : k <= j][2]

\* the labels that extract_bullet_points has handed to
\* standardize_variable_name so far, each with the name it got back
Canonicalized ==
    {<<readings[k].bullet.variable, readings[k].bullet.normalized_variable>> :
        k \in {j \in 1..line_no : readings[j].bullet.matched}}
    \cup {<<readings[k].standalone.variable, readings[k].standalone.normalized_variable>> :
             k \in {j \in 1..line_no : readings[j].standalone.matched}}

\* C22: every label handed to standardize_variable_name gets back the
\* canonical name of the first rule, in listed order, one of whose fragments
\* is a substring of the lower-cased label, and None when no rule has such a
\* fragment; every rule is a substring rule.
C22_FirstRuleBySubstring ==
    \A pc \in Canonicalized : pc[2] = FirstRuleName(TaxonomyRules(Task(extractor)), lower(pc[1]))

(***************************************************************************)
(* C23                                                                     *)
(***************************************************************************)
\* C23: every canonical name that standardize_variable_name has returned for
\* a label is mapped to itself by standardize_variable_name.
C23_CanonicalizeIdempotent ==
    \A pc \in Canonicalized :
        Truthy(pc[2]) => standardize_variable_name(Task(extractor), pc[2]) = pc[2]

(***************************************************************************)
(* C24                                                                     *)
(***************************************************************************)
\* C24: after the step over a line, the final-answer flag is true exactly
\* when that line or an earlier line of the answer holds the phrase 'final
\* answer' in any letter case, anywhere in the line; and the step over a line
\* that holds the phrase leaves the record as it was.
C24_MarkerSetsFlagForGood ==
    [][ LineStep =>
          /\ in_final_answer_section' = (\E j \in 1..(line_no + 1) : HoldsFinalAnswer(lines[j]))
          /\ HoldsFinalAnswer(lines[line_no + 1]) => relevant_points' = relevant_points ]_vars

(***************************************************************************)
(* C25                                                                     *)
(***************************************************************************)
\* the throttled scripts whose main runs several iterations
ThrottledMultiIteration == Throttled(extractor) /\ iteration_n(extractor) > 1

\* C25: in the throttled scripts with several iterations, no more than
\* rate_limit provider calls are ever issued in a row without a throttle
\* check between them, the end of an iteration and the start of the next
\* included.
C25_CheckEveryNInvocations == ThrottledMultiIteration => unchecked <= rate_limit

(***************************************************************************)
(* C26                                                                     *)
(***************************************************************************)
\* C26: in the throttled scripts, whenever a provider call is issued, the
\* call issued rate_limit calls before it lies at least 60 time units back:
\* no interval shorter than the window holds more than rate_limit calls.
C26_QuotaPerWindow ==
    (Throttled(extractor) /\ Len(ages) = rate_limit + 1) => ages[1] >= 60

(***************************************************************************)
(* C27                                                                     *)
(***************************************************************************)
\* the step that ends the processing of an answered case in the PreOP Gemini
\* script
PreOPGeminiCaseEnds == extractor = "PreOP_Gemini" /\ Extracted /\ mpc' # mpc

\* the rows of store f, none when the store does not exist
RowsOf(store, f) == IF f \in DOMAIN store THEN store[f] ELSE <<>>

\* C27: in the PreOP Gemini script, the step that ends the processing of a
\* case answered in iteration i appends the row of the case to the store of
\* iteration i, and the loop goes on with the next case (or ends the
\* iteration after the last one).
C27_PreOPGeminiAppendsRow ==
    [][ PreOPGeminiCaseEnds =>
          /\ OutputFile(extractor, iteration) \in DOMAIN files'
          /\ \E row \in {files'[OutputFile(extractor, iteration)]
                            [Len(files'[OutputFile(extractor, iteration)])]} :
                /\ row.iteration = iteration /\ row.case = case_no
                /\ files'[OutputFile(extractor, iteration)]
                      = Append(RowsOf(files, OutputFile(extractor, iteration)), row)
          /\ IF case_no < NumCases
             THEN mpc' = "case" /\ case_no' = case_no + 1
             ELSE mpc' = "end_iteration" ]_vars

(***************************************************************************)
(* C28                                                                     *)
(***************************************************************************)
\* The batch loop under the assumption that the program keeps running: every
\* provider call returns or raises and every sleep ends (both are part of
\* the step that ends the case), so a step that can be taken is taken.
SpecLive == Init /\ [][Next]_vars /\ WF_vars(Next)

\* the run has ended with the exception of a store that could not be read or
\* written
StoreWriteRaised == mpc = "crashed" /\ OutputFileIsGlobal(extractor)

\* C28: every run in which the stores can be read and written eventually
\* reaches the state in which main has returned after the last case of the
\* last iteration, whatever provider calls succeed or fail.
C28_RunReachesDone == <>(mpc = "done" \/ StoreWriteRaised)

(***************************************************************************)
(* C29                                                                     *)
(***************************************************************************)
\* the categorical part of a stored value: the text before the delimiter
\* " - " that precedes an annotation, the whole value when it has none
CategoricalValue(v) ==
    LET cuts == {i \in 1..(Len(v) - 2) : SubSeq(v, i, i + 2) = " - "}
    IN  IF cuts = {} THEN v
        ELSE SubSeq(v, 1, (CHOOSE i \in cuts : \A j \in cuts : i <= j) - 1)

\* the line the loop processes in this step matches neither
\* bullet_point_pattern nor standalone_answer_pattern
UnmatchedLineStep ==
    /\ LineStep
    /\ ~readings[line_no + 1].bullet.matched
    /\ ~readings[line_no + 1].standalone.matched

\* C29: the step over a line that matches neither the bullet nor the
\* standalone pattern leaves the keys of the record and the categorical value
\* of every entry as they were.
C29_UnmatchedLineKeepsValues ==
    [][ UnmatchedLineStep =>
          /\ DictKeys(relevant_points') = DictKeys(relevant_points)
          /\ \A k \in DictKeys(relevant_points) :
                CategoricalValue(DictGet(relevant_points', k))
                    = CategoricalValue(DictGet(relevant_points, k)) ]_vars

\* the loop has just processed a non-empty line that matches no pattern and
\* follows a recorded bullet line, and the record holds the entry of that
\* bullet line
C29_Witness ==
    /\ npc = "loop"
    /\ line_no >= 2
    /\ ~readings[line_no].marker
    /\ ~readings[line_no].bullet.matched
    /\ ~readings[line_no].standalone.matched
    /\ readings[line_no].line # ""
    /\ readings[line_no - 1].bullet.matched
    /\ Truthy(readings[line_no - 1].bullet.normalized_variable)
    /\ DictHas(relevant_points, readings[line_no - 1].bullet.normalized_variable)
    /\ Branch(extractor, LoopState, readings[line_no]) = "explanation"

(***************************************************************************)
(* C30                                                                     *)
(***************************************************************************)
\* the final answer as a numbered list of the seven data points of
\* input_instructions
C30_Answer ==
    join_lines(<<"Final answer:",
                 "1. Any improvement of pain after first surgery: Yes",
                 "2. Completely free of pain after first surgery: No",
                 "3. Symptom recurrence after first surgery: Yes",
                 "4. A second surgery was carried out: Yes",
                 "5. Free of pain after second surgery: Yes",
                 "6. Recurrence after second surgery: No",
                 "7. Thermocoagulation was carried out: No">>)

\* the <<label, answer>> readings of a line of the shape 'k. Label: Answer'
\* with k from 1 to 7
NumberedShape(line, answers) ==
    {<<SubSeq(line, 4, Len(line) - Len(ka[2]) - 2), ka[2]>> :
        ka \in {x \in {"1.", "2.", "3.", "4.", "5.", "6.", "7."} \X answers :
                   /\ StartsWith(line, x[1] \o " ")
                   /\ EndsWith(line, ": " \o x[2])
                   /\ Len(line) > Len(x[2]) + 5
                   /\ ~HasColon(SubSeq(line, 4, Len(line) - Len(x[2]) - 2))}}

\* C30: when a Disease Course script has returned from the numbered final
\* answer, every line 'k. Label: Value' of it whose label canonicalizes is
\* recorded under its canonical name with its value, for k = 1..7.
C30_NumberedListRecorded ==
    (Returned /\ extractor \in DisCourseExtractors /\ response_text = C30_Answer) =>
        \A k \in 1..Len(lines) : \A lt \in NumberedShape(lines[k], Vocabulary) :
            Truthy(Canonical(lt[1])) =>
                /\ DictHas(relevant_points, Canonical(lt[1]))
                /\ DictGet(relevant_points, Canonical(lt[1])) = ExpectedValue(lt[2])

====
